---- MODULE Spec2Model ----
(***************************************************************************)
(* Procedural world generator of DnD_Adventure (worldgen package): the     *)
(* heightmap, biome, river, POI and road stages, the pickle cache in front *)
(* of them, and the starting-position lookup of the player manager.        *)
(*                                                                         *)
(* Heights and thresholds are integers in hundredths (0.01 = 1), so the    *)
(* river slack of 0.01 is Slack = 1 and a normalised height is 0..Scale.   *)
(* Grids are sequences of rows; tile (i, j) of grid g is g[j+1][i+1].      *)
(***************************************************************************)
EXTENDS Integers, Sequences, FiniteSets, TLC

\* ------------------------------------------------------------------ bounds
MaxPeaks == 1        \* cells of a drawn noise field above the base level
RiverPits == 2       \* cells below the base level, fields drawn for river walks
PoiPits == 1         \* cells below the base level, fields drawn for placement
StreamLen == 2       \* period, in (x, y) draws, of a drawn random stream
MaxPois == 3         \* length of a drawn POI list

\* ------------------------------------------------------- program constants
Slack == 1           \* hm[ny][nx] <= hm[j][i] + 0.01
Bump == 1            \* v = min(1.0, last + 0.01)
Tries == 4000        \* attempts of one POI placement
WaterCost == 9999
SandCost == 6
GrassCost == 3
ForestCost == 5
MountainCost == 8
UnknownCost == 4

Scale == 100 * Slack
Biomes == {"water", "sand", "grass", "forest", "mountain"}
DefaultBiomes == [water |-> 30, sand |-> 36, grass |-> 65, forest |-> 80]

\* ----------------------------------------------------------- list helpers
Max2(a, b) == IF a >= b THEN a ELSE b
Min2(a, b) == IF a <= b THEN a ELSE b
Abs(a) == IF a < 0 THEN 0 - a ELSE a
Front(s) == SubSeq(s, 1, Len(s) - 1)
Last(s) == s[Len(s)]
Range(s) == {s[k] : k \in 1..Len(s)}

RECURSIVE SelectSeq2(_, _)
\* [x for x in s if x in keep]
SelectSeq2(s, keep) ==
    IF s = <<>> THEN <<>>
    ELSE IF s[1] \in keep THEN <<s[1]>> \o SelectSeq2(Tail(s), keep)
         ELSE SelectSeq2(Tail(s), keep)

RECURSIVE InsertSorted(_, _)
\* x is a pair <<key, value>>; it goes after every element whose key is <= its
\* key, which is what a stable sort does with the element that came last.
InsertSorted(s, x) ==
    IF s = <<>> THEN <<x>>
    ELSE IF Last(s)[1] <= x[1] THEN Append(s, x)
         ELSE Append(InsertSorted(Front(s), x), Last(s))

RECURSIVE SortPairs(_)
\* list.sort(key=...): stable, ascending, on <<key, value>> pairs
SortPairs(s) ==
    IF s = <<>> THEN <<>> ELSE InsertSorted(SortPairs(Front(s)), Last(s))

Values(s) == [k \in 1..Len(s) |-> s[k][2]]

\* -------------------------------------------------------------- grids
At(g, i, j) == g[j + 1][i + 1]
GridH(g) == Len(g)
GridW(g) == IF Len(g) > 0 THEN Len(g[1]) ELSE 0
Cells(W, H) == {<<i, j>> : i \in 0..(W - 1), j \in 0..(H - 1)}
\* row-major scan: for j in range(H): for i in range(W)
Scan(W, H) == [k \in 1..(W * H) |-> <<(k - 1) % W, (k - 1) \div W>>]
\* the boolean grid with True on the tiles of S
MarkGrid(W, H, S) == [j \in 1..H |-> [i \in 1..W |-> <<i - 1, j - 1>> \in S]]
IsGrid(g, W, H) == Len(g) = H /\ \A j \in 1..H : Len(g[j]) = W

manhattan(a, b) == Abs(a[1] - b[1]) + Abs(a[2] - b[2])

neighbors(i, j, W, H) ==
    SelectSeq2(<<<<i + 1, j>>, <<i - 1, j>>, <<i, j + 1>>, <<i, j - 1>>>>,
               Cells(W, H))

\* ------------------------------------------------------ heightmap, biomes
\* raw is the grid of fbm samples; min-max normalisation with the 1e-9 guard
\* (a flat grid divides 0 by the guard and is 0 everywhere).
MinOf(S) == CHOOSE m \in S : \A x \in S : m <= x
MaxOf(S) == CHOOSE m \in S : \A x \in S : m >= x
GridVals(g) == UNION {Range(g[j]) : j \in 1..Len(g)}

\* mutant of rescale: the minimum is not subtracted
rescale_nolo(raw, lo, hi) ==
    [j \in 1..Len(raw) |-> [i \in 1..Len(raw[j]) |->
        IF hi = lo THEN 0 ELSE (raw[j][i] * Scale) \div (hi - lo)]]

\* hm[j][i] = (hm[j][i] - lo) / max(hi - lo, 1e-9)
rescale(raw, lo, hi) ==
    [j \in 1..Len(raw) |-> [i \in 1..Len(raw[j]) |->
        IF hi = lo THEN 0 ELSE ((raw[j][i] - lo) * Scale) \div (hi - lo)]]

normalise(raw) == rescale(raw, MinOf(GridVals(raw)), MaxOf(GridVals(raw)))

\* th.get(k, _DEFAULT_WORLDGEN_CFG["biomes"][k]) on a dict that may lack k
Get(th, k) == IF k \in DOMAIN th THEN th[k] ELSE DefaultBiomes[k]

\* max(0.0, min(1.0, v))
clamp(v) == Max2(0, Min2(Scale, v))

\* one turn of the repair loop: clamp, and lift a value below the last one
repaired(v, last) == IF clamp(v) < last THEN Min2(Scale, last + Bump) ELSE clamp(v)

\* the loop over water, sand, grass, forest, each value passed on as "last"
repair_forest(th, w, s, g) ==
    [water |-> w, sand |-> s, grass |-> g, forest |-> repaired(Get(th, "forest"), g)]
repair_grass(th, w, s) == repair_forest(th, w, s, repaired(Get(th, "grass"), s))
repair_sand(th, w) == repair_grass(th, w, repaired(Get(th, "sand"), w))

normalize_biome_thresholds(th) == repair_sand(th, repaired(Get(th, "water"), 0))

\* map_generator._biome_from_height: a missing threshold is the default
biome_from_height(h, th) ==
    IF h < Get(th, "water") THEN "water"
    ELSE IF h < Get(th, "sand") THEN "sand"
    ELSE IF h < Get(th, "grass") THEN "grass"
    ELSE IF h < Get(th, "forest") THEN "forest"
    ELSE "mountain"

\* biomes._biome_from_height: th[k] raises KeyError when the comparison that
\* needs k is reached and k is missing
core_biome_from_height(h, th) ==
    IF "water" \notin DOMAIN th THEN "KeyError"
    ELSE IF h < th["water"] THEN "water"
    ELSE IF "sand" \notin DOMAIN th THEN "KeyError"
    ELSE IF h < th["sand"] THEN "sand"
    ELSE IF "grass" \notin DOMAIN th THEN "KeyError"
    ELSE IF h < th["grass"] THEN "grass"
    ELSE IF "forest" \notin DOMAIN th THEN "KeyError"
    ELSE IF h < th["forest"] THEN "forest"
    ELSE "mountain"

\* biomes.generate_biome_map raises when the classification of a cell does
core_biomemap_raises(hm, th) ==
    \E j \in 1..Len(hm) : \E i \in 1..Len(hm[j]) :
        core_biome_from_height(hm[j][i], th) = "KeyError"

biomemap(hm, th) ==
    [j \in 1..Len(hm) |-> [i \in 1..Len(hm[j]) |-> biome_from_height(hm[j][i], th)]]

\* ---------------------------------------------------------------- rivers
IsPeak(hm, c) ==
    LET W == GridW(hm)
        H == GridH(hm)
        nb == neighbors(c[1], c[2], W, H)
    IN  \A k \in 1..Len(nb) : At(hm, c[1], c[2]) >= At(hm, nb[k][1], nb[k][2])

\* candidates.sort(key=height, reverse=True): stable, highest first
by_height_desc(hm, cands) ==
    Values(SortPairs([k \in 1..Len(cands) |->
                        <<0 - At(hm, cands[k][1], cands[k][2]), cands[k]>>]))

\* s[:n]
Prefix(s, n) == SubSeq(s, 1, Min2(n, Len(s)))

\* mutant of find_local_peaks: every peak is a source, whatever the count
find_local_peaks_all(hm, count) ==
    by_height_desc(hm, SelectSeq2(Scan(GridW(hm), GridH(hm)),
                                  {c \in Cells(GridW(hm), GridH(hm)) : IsPeak(hm, c)}))

find_local_peaks(hm, count) ==
    Prefix(by_height_desc(hm, SelectSeq2(Scan(GridW(hm), GridH(hm)),
                                         {c \in Cells(GridW(hm), GridH(hm)) : IsPeak(hm, c)})),
           count)

OnEdge(c, W, H) == c[1] = 0 \/ c[2] = 0 \/ c[1] = W - 1 \/ c[2] = H - 1

\* neigh.sort(key=height): stable, lowest first
by_height(hm, nb) ==
    Values(SortPairs([k \in 1..Len(nb) |-> <<At(hm, nb[k][1], nb[k][2]), nb[k]>>]))

\* neighbours of c, lowest first
sorted_neighbors(hm, c) == by_height(hm, neighbors(c[1], c[2], GridW(hm), GridH(hm)))

\* mutant of accepted: visited neighbours are accepted as well
accepted_visited(hm, c, visited, neigh) ==
    SelectSeq2(neigh, {n \in Range(neigh) :
                          At(hm, n[1], n[2]) <= At(hm, c[1], c[2]) + Slack})

\* those of neigh the inner loop accepts: unvisited and at most Slack higher
accepted(hm, c, visited, neigh) ==
    SelectSeq2(neigh, {n \in Range(neigh) :
                          /\ n \notin visited
                          /\ At(hm, n[1], n[2]) <= At(hm, c[1], c[2]) + Slack})

downhill(hm, c, visited) == accepted(hm, c, visited, sorted_neighbors(hm, c))

\* the first accepted neighbour, else neigh[0], the lowest, visited or not
moved_to(c, acc, neigh) ==
    IF acc # <<>> THEN acc[1] ELSE IF neigh # <<>> THEN neigh[1] ELSE c

\* the tile the walk moves to from c
river_step(hm, c, visited) ==
    moved_to(c, downhill(hm, c, visited), sorted_neighbors(hm, c))

RECURSIVE river_walk_stuck(_, _, _, _, _, _)
\* mutant of river_walk: gives up where no neighbour is accepted
river_walk_stuck(hm, bm, c, visited, path, left) ==
    IF left = 0 THEN [path |-> path, end |-> "budget"]
    ELSE LET v2 == visited \cup {c}
             p2 == Append(path, c)
         IN  IF \/ At(bm, c[1], c[2]) = "water" \/ OnEdge(c, GridW(hm), GridH(hm))
                \/ downhill(hm, c, v2) = <<>>
             THEN [path |-> p2, end |-> "stop"]
             ELSE river_walk_stuck(hm, bm, river_step(hm, c, v2), v2, p2, left - 1)

RECURSIVE river_walk(_, _, _, _, _, _)
\* one source's loop, for _ in range(W*H*2): the tiles marked, in order, and
\* how the loop ended ("stop": the break on water or edge, "budget": range
\* exhausted)
river_walk(hm, bm, c, visited, path, left) ==
    IF left = 0 THEN [path |-> path, end |-> "budget"]
    ELSE LET v2 == visited \cup {c}
             p2 == Append(path, c)
         IN  IF At(bm, c[1], c[2]) = "water" \/ OnEdge(c, GridW(hm), GridH(hm))
             THEN [path |-> p2, end |-> "stop"]
             ELSE river_walk(hm, bm, river_step(hm, c, v2), v2, p2, left - 1)

\* mutant of walks_from: the loop of a source runs for 3*W*H iterations
walks_from_long(hm, bm, sources) ==
    [k \in 1..Len(sources) |->
        river_walk(hm, bm, sources[k], {}, <<>>, GridW(hm) * GridH(hm) * 3)]

\* mutant of walks_from: every walk sees the tiles of the earlier walks as
\* water already
walks_from_wet(hm, bm, sources) ==
    [k \in 1..Len(sources) |->
        river_walk(hm,
                   [j \in 1..Len(bm) |-> [i \in 1..Len(bm[j]) |->
                       IF \E m \in 1..(k - 1) :
                              <<i - 1, j - 1>> \in
                                  Range(river_walk(hm, bm, sources[m], {}, <<>>,
                                                   GridW(hm) * GridH(hm) * 2).path)
                       THEN "water" ELSE bm[j][i]]],
                   sources[k], {}, <<>>, GridW(hm) * GridH(hm) * 2)]

walks_from(hm, bm, sources) ==
    [k \in 1..Len(sources) |->
        river_walk(hm, bm, sources[k], {}, <<>>, GridW(hm) * GridH(hm) * 2)]

river_walks(hm, bm, river_count) == walks_from(hm, bm, find_local_peaks(hm, river_count))

\* the tiles the walks marked
Marked(walks) == UNION {Range(walks[k].path) : k \in 1..Len(walks)}

\* mutant of overwrite: the biome grid is left as the walks found it
overwrite_none(bm, S) == bm

\* the last loop of _carve_rivers: every marked tile becomes "water"
overwrite(bm, S) ==
    [j \in 1..Len(bm) |-> [i \in 1..Len(bm[j]) |->
        IF <<i - 1, j - 1>> \in S THEN "water" ELSE bm[j][i]]]

carved(hm, bm, walks) ==
    [rivers |-> MarkGrid(GridW(hm), GridH(hm), Marked(walks)),
     bm |-> overwrite(bm, Marked(walks)),
     walks |-> walks]

\* carve_rivers: the rivers grid, the biome grid after the overwrite, and the
\* walks that produced them
carve_rivers(hm, bm, river_count) == carved(hm, bm, river_walks(hm, bm, river_count))

\* ------------------------------------------------------------------ POIs
\* A random.Random is a position in a stream of draws.  A stream is a
\* sequence of <<u, v>> pairs read cyclically; one attempt consumes one pair,
\* randrange(W) giving u % W and randrange(H) giving v % H.
DrawAt(r, d, W, H) ==
    LET e == r.stream[((r.pos + d) % Len(r.stream)) + 1]
    IN  <<e[1] % W, e[2] % H>>

\* mutant of Eligible: every biome is eligible for every type
Eligible_any(kind) == Biomes

Eligible(kind) ==
    IF kind \in {"town", "castle"} THEN {"grass", "forest"}
    ELSE IF kind = "dungeon" THEN {"mountain", "forest", "grass"}
    ELSE Biomes

\* mutant of can_place: the spacing loop is missing
can_place_nospacing(bm, pois, kind, c, min_spacing) ==
    At(bm, c[1], c[2]) \in Eligible(kind)

can_place(bm, pois, kind, c, min_spacing) ==
    /\ At(bm, c[1], c[2]) \in Eligible(kind)
    /\ \A k \in 1..Len(pois) : manhattan(<<pois[k].x, pois[k].y>>, c) >= min_spacing

\* one placement: up to Tries attempts.  The stream repeats after Len(stream)
\* draws, so the attempts past the first period see the same tiles again.
try_place(bm, st, kind, min_spacing) ==
    LET W == GridW(bm)
        H == GridH(bm)
        n == Min2(Tries, Len(st.rng.stream))
        hits == {d \in 0..(n - 1) :
                    can_place(bm, st.pois, kind, DrawAt(st.rng, d, W, H), min_spacing)}
    IN  IF hits # {}
        THEN LET d == MinOf(hits)
                 c == DrawAt(st.rng, d, W, H)
             IN  [pois |-> Append(st.pois, [x |-> c[1], y |-> c[2], type |-> kind]),
                  rng |-> [st.rng EXCEPT !.pos = (st.rng.pos + d + 1) % Len(st.rng.stream)],
                  attempts |-> Append(st.attempts, d + 1)]
        ELSE [pois |-> st.pois,
              rng |-> [st.rng EXCEPT !.pos = (st.rng.pos + Tries) % Len(st.rng.stream)],
              attempts |-> Append(st.attempts, Tries)]

Repeat(v, n) == [k \in 1..Max2(n, 0) |-> v]

RECURSIVE place_all(_, _, _, _)
place_all(bm, st, kinds, min_spacing) ==
    IF kinds = <<>> THEN st
    ELSE place_all(bm, try_place(bm, st, kinds[1], min_spacing), Tail(kinds), min_spacing)

\* mutant of place_pois: the towns are placed before the castles
place_pois_towns_first(bm, counts, min_spacing, r) ==
    place_all(bm, [pois |-> <<>>, rng |-> r, attempts |-> <<>>],
              Repeat("town", counts.towns) \o Repeat("castle", counts.castles)
                  \o Repeat("dungeon", counts.dungeons),
              min_spacing)

\* castles first, then towns, then dungeons
place_pois(bm, counts, min_spacing, r) ==
    place_all(bm, [pois |-> <<>>, rng |-> r, attempts |-> <<>>],
              Repeat("castle", counts.castles) \o Repeat("town", counts.towns)
                  \o Repeat("dungeon", counts.dungeons),
              min_spacing)

\* ----------------------------------------------------------------- roads
pass_cost(biome) ==
    CASE biome = "water" -> WaterCost
      [] biome = "sand" -> SandCost
      [] biome = "grass" -> GrassCost
      [] biome = "forest" -> ForestCost
      [] biome = "mountain" -> MountainCost
      [] OTHER -> UnknownCost

\* candidates.sort(key=(cost, distance to the target)): stable, cheapest first
by_cost(bm, t, nb) ==
    Values(SortPairs([k \in 1..Len(nb) |->
               <<pass_cost(At(bm, nb[k][1], nb[k][2])) * 1000 + manhattan(nb[k], t),
                 nb[k]>>]))

\* mutant of first_dry: the cheapest candidate is taken, water or not
first_any(bm, cand) == IF cand = <<>> THEN <<>> ELSE cand[1]

\* mutant of first_dry: no candidate is ever taken
first_none(bm, cand) == <<>>

\* the first candidate that is not water, or <<>> when there is none
first_dry(bm, cand) ==
    LET dry == {k \in 1..Len(cand) : At(bm, cand[k][1], cand[k][2]) # "water"}
    IN  IF dry = {} THEN <<>> ELSE cand[MinOf(dry)]

\* the neighbour a road moves to from c, or <<>> when every neighbour is water
road_step(bm, c, t) ==
    first_dry(bm, by_cost(bm, t, neighbors(c[1], c[2], GridW(bm), GridH(bm))))

RECURSIVE lay_road(_, _, _, _, _)
\* mutant of road_moved: the tile moved to is not marked
road_moved_unmarked(bm, t, steps, path, n) ==
    IF n = <<>> THEN path ELSE lay_road(bm, n, t, steps + 1, path)

\* the end of one iteration: n is marked and the road goes on from it, or the
\* loop breaks
road_moved(bm, t, steps, path, n) ==
    IF n = <<>> THEN path ELSE lay_road(bm, n, t, steps + 1, Append(path, n))

\* the tiles one road marks, in order
lay_road(bm, c, t, steps, path) ==
    IF c = t \/ steps >= GridW(bm) * GridH(bm) THEN path
    ELSE road_moved(bm, t, steps, path, road_step(bm, c, t))

\* mutant of nearest: the first of the pool, near or not
nearest_first(pt, pool) == pool[1]

\* min(pool, key=manhattan): the first of the nearest
nearest(pt, pool) ==
    Values(SortPairs([k \in 1..Len(pool) |-> <<manhattan(pt, pool[k]), pool[k]>>]))[1]

\* the indices of the POIs of a type, in list order
IndicesOf(pois, kind) ==
    SelectSeq2([k \in 1..Len(pois) |-> k], {k \in 1..Len(pois) : pois[k].type = kind})

coords(pois, idx) == [k \in 1..Len(idx) |-> <<pois[idx[k]].x, pois[idx[k]].y>>]

PoiCoords(pois, kind) == coords(pois, IndicesOf(pois, kind))

\* nearest(t, castles) or nearest(t, [q for q in towns if q != t]), as a
\* sequence of at most one target
target_of(t, castles, others) ==
    IF castles # <<>> THEN <<nearest(t, castles)>>
    ELSE IF others # <<>> THEN <<nearest(t, others)>>
    ELSE <<>>

targets(towns, castles) ==
    [k \in 1..Len(towns) |->
        target_of(towns[k], castles, SelectSeq2(towns, Range(towns) \ {towns[k]}))]

\* the <<start, end>> pairs of the two loops: towns with a target, then
\* consecutive castles
links_of(towns, castles, tg) ==
    LET tl == SelectSeq2([k \in 1..Len(towns) |-> k],
                         {k \in 1..Len(towns) : tg[k] # <<>>})
    IN  [k \in 1..Len(tl) |-> <<towns[tl[k]], tg[tl[k]][1]>>]
        \o [k \in 1..(Len(castles) - 1) |-> <<castles[k], castles[k + 1]>>]

town_links(towns, castles) == links_of(towns, castles, targets(towns, castles))

\* the <<start, end>> pairs connect_pois_with_roads lays a road for
road_links(pois) == town_links(PoiCoords(pois, "town"), PoiCoords(pois, "castle"))

roads_over(bm, links, paths) ==
    [roads |-> MarkGrid(GridW(bm), GridH(bm), UNION {Range(paths[k]) : k \in 1..Len(paths)}),
     links |-> links, paths |-> paths]

roads_along(bm, links) ==
    roads_over(bm, links,
               [k \in 1..Len(links) |-> lay_road(bm, links[k][1], links[k][2], 0, <<>>)])

connect_pois_with_roads(bm, pois) == roads_along(bm, road_links(pois))

\* ------------------------------------------------------------- locations
\* str(n) as its decimal digits, and the "x,y" key
Str(n) == IF n < 10 THEN <<n>> ELSE <<n \div 10, n % 10>>
LocKey(x, y) == Str(x) \o <<",">> \o Str(y)

\* d[key] = val on an insertion-ordered dict held as a sequence of entries
DictSet(d, key, val) ==
    IF \E k \in 1..Len(d) : d[k].key = key
    THEN [k \in 1..Len(d) |-> IF d[k].key = key THEN [key |-> key, val |-> val] ELSE d[k]]
    ELSE Append(d, [key |-> key, val |-> val])

CountType(pois, n, kind) == Cardinality({k \in 1..n : pois[k].type = kind})

RECURSIVE build_locations(_, _)
\* the naming loop over the first n POIs; the counter of a type is one more
\* than the number of POIs of the type already named
build_locations(pois, n) ==
    IF n = 0 THEN <<>>
    ELSE LET p == pois[n]
             label == CASE p.type = "town" -> "Town"
                        [] p.type = "castle" -> "Castle"
                        [] OTHER -> "Dungeon"
         IN  DictSet(build_locations(pois, n - 1), LocKey(p.x, p.y),
                     [type |-> p.type, name |-> <<label, CountType(pois, n, p.type)>>])

\* ---------------------------------------------------------------- state
VARIABLES
    fbm,       \* the noise: fbm[<<seed, noise>>][<<i, j>>] is the raw sample
    mt,        \* the random module: mt[seed] is the stream of Random(seed)
    rng,       \* the generator as the last placement left it
    cfg,       \* worldgen.json
    gen,       \* the stages of the fresh generation that ran with the cache bypassed
    files,     \* the cache directory: files[key] is the file's content
    dirOk,     \* the cache directory exists or can be created
    writable,  \* files in it can be opened for writing
    ret,       \* what the last request returned or raised
    lastGen,   \* the world last generated and stored, while its entry is untouched
    first,     \* first[c]: the stages of the first fresh generation under config c
    start,     \* the last starting-position lookup
    world      \* the World object last constructed

vars == <<fbm, mt, rng, cfg, gen, files, dirOk, writable, ret, lastGen, first, start,
         world>>

None == [kind |-> "none"]

\* ------------------------------------------------------------ world dicts
\* Values the code tests with isinstance carry their Python type.
PyInt(n) == [ty |-> "int", val |-> n]
PyList(g) == [ty |-> "list", val |-> g]

\* mutant of SeededRng: one generator shared by all requests
SharedRng(seed) == rng

\* rng = random.Random(seed)
SeededRng(seed) == [stream |-> mt[seed], pos |-> 0]

RawGrid(W, H, seed, noise) ==
    [j \in 1..H |-> [i \in 1..W |-> fbm[<<seed, noise>>][<<i - 1, j - 1>>]]]

\* _heightmap / generate_heightmap: min() of an empty grid or row raises
heightmap(W, H, seed, noise) ==
    IF W <= 0 \/ H <= 0 THEN [ok |-> FALSE, err |-> "ValueError"]
    ELSE [ok |-> TRUE, hm |-> normalise(RawGrid(W, H, seed, noise))]

\* the thresholds a generation uses: repaired by map_generator, as configured
\* by map_core
thresholds(c, api) ==
    IF api = "map_generator" THEN normalize_biome_thresholds(c.biomes) ELSE c.biomes

\* the record of a generation once every stage has run
staged(c, h, bm0, rv, pp, rd) ==
    [kind |-> "gen", cfg |-> c, hm |-> h, bm0 |-> bm0, bm |-> rv.bm, rivers |-> rv.rivers,
     walks |-> rv.walks, pois |-> pp.pois, rng |-> pp.rng, attempts |-> pp.attempts,
     roads |-> rd.roads, links |-> rd.links, paths |-> rd.paths,
     locations |-> build_locations(pp.pois, Len(pp.pois))]

\* mutant of after_pois: the roads are laid over the labels of the heightmap,
\* as if no river had been carved
after_pois_uncarved(c, h, bm0, rv, pp) ==
    staged(c, h, bm0, rv, pp, connect_pois_with_roads(bm0, pp.pois))

\* roads over the biome grid the rivers left, between the POIs placed
after_pois(c, h, bm0, rv, pp) ==
    staged(c, h, bm0, rv, pp, connect_pois_with_roads(rv.bm, pp.pois))

\* mutant of after_rivers: the POIs are placed on the labels of the
\* heightmap, as if no river had been carved
after_rivers_uncarved(c, h, bm0, rv, r) ==
    after_pois(c, h, bm0, rv, place_pois(bm0, c.poi, c.poi.min_spacing, r))

\* POIs on the biome grid the rivers left
after_rivers(c, h, bm0, rv, r) ==
    after_pois(c, h, bm0, rv, place_pois(rv.bm, c.poi, c.poi.min_spacing, r))

\* rivers over the biome grid of the heightmap
after_biomes(c, h, bm0, r) == after_rivers(c, h, bm0, carve_rivers(h, bm0, c.rivers), r)

\* the stages of a fresh generation after the heightmap, in order; api is
\* "map_generator" or "map_core"
stages(c, h, api, r) == after_biomes(c, h, biomemap(h, thresholds(c, api)), r)

\* the dict each implementation assembles; map_core's literal names "height"
\* twice, so the heightmap replaces the integer and there is no "heightmap"
assemble(c, g, api) ==
    IF api = "map_generator"
    THEN [width |-> PyInt(c.width), height |-> PyInt(c.height), seed |-> c.seed,
          heightmap |-> g.hm, biomes |-> g.bm, rivers |-> g.rivers,
          roads |-> g.roads, locations |-> g.locations]
    ELSE [width |-> PyInt(c.width), height |-> PyList(g.hm), seed |-> c.seed,
          biomes |-> g.bm, rivers |-> g.rivers,
          roads |-> g.roads, locations |-> g.locations]

\* mutant of normalize_world_dict: the dict is left as loaded
normalize_none(w) == w

\* _normalize_world_dict: a "height" that is a list of lists is the heightmap
normalize_world_dict(w) ==
    IF w.height.ty = "list" /\ w.height.val # <<>>
    THEN [k \in DOMAIN w \cup {"heightmap"} |->
            CASE k = "heightmap" -> w.height.val
              [] k = "height" -> PyInt(Len(w.height.val))
              [] k = "width" -> IF w.width.ty = "int" THEN w.width
                                ELSE PyInt(Len(w.height.val[1]))
              [] OTHER -> w[k]]
    ELSE w

\* ----------------------------------------------------------------- cache
NoFile == [fmt |-> "absent"]
Garbage == [fmt |-> "garbage"]
\* mutant of dumps: the locations are not stored
dumps_lossy(w) == [fmt |-> "pickle", obj |-> [w EXCEPT !.locations = <<>>]]

\* pickle.dump / pickle.load: the object comes back, or the load raises
dumps(w) == [fmt |-> "pickle", obj |-> w]
load_ok(f) == f.fmt = "pickle"
loads(f) == f.obj

\* f"map_cache_seed{seed}_{W}x{H}.pkl"
cache_key(seed, W, H) == <<"map_cache_seed", seed, "_", W, "x", H, ".pkl">>
\* mutant of KeyOf: the noise parameters are part of the key
KeyOf_noise(c) == cache_key(c.seed, c.width, c.height) \o <<c.noise>>

KeyOf(c) == cache_key(c.seed, c.width, c.height)

\* ------------------------------------------------------------------ inputs
Seeds == {1337, 42}
PoiDims == <<3, 2>>
RiverDims == <<5, 3>>
MainDims == <<3, 3>>
DryBiomes == [water |-> 0, sand |-> 36, grass |-> 65, forest |-> 80]

Config(W, H, seed, noise, th, poi, rv) ==
    [width |-> W, height |-> H, seed |-> seed, noise |-> noise, biomes |-> th,
     poi |-> poi, rivers |-> rv]

Counts(t, c, d, sp) == [towns |-> t, castles |-> c, dungeons |-> d, min_spacing |-> sp]

NoiseKeys == Seeds \X {"default", "lattice"}

\* a field of three levels: 2 on the cells of U, 0 on those of D, 1 elsewhere
Field(W, H, U, D) ==
    [c \in Cells(W, H) |-> IF c \in U THEN 2 ELSE IF c \in D THEN 0 ELSE 1]

Streams(W, H) == [1..StreamLen -> Cells(W, H)]

\* a stream that draws (2, 2) once and then (2, 0)
FixedStream == [k \in 1..StreamLen |-> IF k = 1 THEN <<2, 2>> ELSE <<2, 0>>]

\* configurations for placement and roads, and for river walks
PoiConfigs ==
    {Config(PoiDims[1], PoiDims[2], 1337, "default", DefaultBiomes, p, 1) :
        p \in {Counts(1, 1, 1, 0), Counts(1, 1, 1, 2), Counts(2, 0, 0, 1)}}

RiverConfigs ==
    {Config(RiverDims[1], RiverDims[2], 1337, "default", DefaultBiomes, Counts(0, 0, 0, 4), 2),
     Config(RiverDims[1], RiverDims[2], 1337, "default", DryBiomes, Counts(0, 0, 0, 4), 1)}

\* fbm and Random(seed) as the source computes them: the samples in 1e-4 of
\* the MainDims grid and the first twenty (randrange(3), randrange(3)) draws
RealFbm ==
    [k \in NoiseKeys |->
        LET rows == CASE k = <<1337, "default">> ->
                           <<<<7500, 7450, 7309>>, <<7409, 7402, 7324>>, <<7188, 7244, 7274>>>>
                      [] k = <<1337, "lattice">> ->
                           <<<<3093, 8499, 3998>>, <<5250, 6073, 2097>>, <<2274, 2710, 456>>>>
                      [] k = <<42, "default">> ->
                           <<<<4658, 4619, 4571>>, <<4676, 4624, 4546>>, <<4737, 4655, 4515>>>>
                      [] OTHER ->
                           <<<<758, 3028, 4766>>, <<9648, 8297, 3647>>, <<333, 4839, 1122>>>>
        IN  [c \in Cells(MainDims[1], MainDims[2]) |-> rows[c[2] + 1][c[1] + 1]]]

RealDraws ==
    [s \in Seeds |->
        IF s = 1337
        THEN <<<<2, 2>>, <<2, 1>>, <<2, 2>>, <<2, 0>>, <<1, 1>>, <<2, 1>>,
               <<1, 1>>, <<2, 0>>, <<2, 1>>, <<0, 1>>, <<2, 1>>, <<0, 2>>,
               <<2, 2>>, <<1, 1>>, <<1, 2>>, <<1, 2>>, <<0, 1>>, <<2, 0>>,
               <<1, 0>>, <<0, 1>>>>
        ELSE <<<<2, 0>>, <<0, 2>>, <<1, 0>>, <<0, 0>>, <<2, 0>>, <<2, 2>>,
               <<2, 0>>, <<2, 1>>, <<0, 0>>, <<0, 0>>, <<0, 2>>, <<2, 0>>,
               <<2, 0>>, <<2, 2>>, <<2, 2>>, <<1, 0>>, <<1, 2>>, <<1, 0>>,
               <<0, 2>>, <<1, 1>>>>]

MainConfigs ==
    {Config(MainDims[1], MainDims[2], 1337, "default", DefaultBiomes, Counts(1, 1, 1, 2), 1),
     Config(MainDims[1], MainDims[2], 1337, "lattice", DryBiomes, Counts(2, 0, 0, 0), 0),
     Config(0, MainDims[2], 1337, "default", DefaultBiomes, Counts(1, 1, 1, 2), 1)}

MainKeys == {KeyOf(c) : c \in MainConfigs}

\* ------------------------------------------- fresh generation, cache bypassed
Raise(err) == [kind |-> "raise", err |-> err]

FreshInit(configs) ==
    /\ cfg \in configs
    \* the noise: at most MaxPeaks cells above the base level, and at most
    \* PoiPits or RiverPits cells below it
    /\ \E U \in SUBSET Cells(cfg.width, cfg.height) :
          /\ Cardinality(U) <= MaxPeaks
          /\ \E D \in SUBSET (Cells(cfg.width, cfg.height) \ U) :
                /\ Cardinality(D) <= (IF cfg.width = PoiDims[1] THEN PoiPits ELSE RiverPits)
                /\ fbm = [k \in {<<cfg.seed, cfg.noise>>} |-> Field(cfg.width, cfg.height, U, D)]
    \* the draws: any stream on the placement grid, one fixed stream elsewhere
    /\ IF cfg.width = PoiDims[1]
       THEN \E s \in Streams(cfg.width, cfg.height) : mt = [sd \in {cfg.seed} |-> s]
       ELSE mt = [sd \in {cfg.seed} |-> FixedStream]
    /\ rng = [stream |-> mt[cfg.seed], pos |-> 0]
    /\ gen = None
    /\ files = [k \in {KeyOf(cfg)} |-> NoFile]
    /\ dirOk = TRUE /\ writable = TRUE
    /\ ret = None /\ lastGen = None /\ start = None /\ world = None
    /\ first = [c \in {cfg} |-> None]

\* the pipeline of generate_map, steps 3 and 4, on a cache miss
FreshGenerate ==
    /\ gen = None
    /\ LET h == heightmap(cfg.width, cfg.height, cfg.seed, cfg.noise)
       IN  /\ h.ok
           /\ gen' = stages(cfg, h.hm, "map_generator", SeededRng(cfg.seed))
                        @@ [again |-> FALSE]
    /\ rng' = gen'.rng
    /\ ret' = [kind |-> "world", world |-> assemble(cfg, gen', "map_generator"),
               fresh |-> TRUE, key |-> KeyOf(cfg)]
    /\ UNCHANGED <<fbm, mt, cfg, files, dirOk, writable, lastGen, first, start, world>>

FreshNext == FreshGenerate

PoiInit == FreshInit(PoiConfigs)
RiverInit == FreshInit(RiverConfigs)

PoiSpec == PoiInit /\ [][FreshNext]_vars
RiverSpec == RiverInit /\ [][FreshNext]_vars

\* one castle alone on the placement grid, with one river
CastleConfigs ==
    {Config(PoiDims[1], PoiDims[2], 1337, "default", DefaultBiomes, Counts(0, 1, 0, 4), 1)}

CastleInit == FreshInit(CastleConfigs)
CastleSpec == CastleInit /\ [][FreshNext]_vars

\* a wide grid with one river, three POIs on the fixed stream and a road
\* between them, and the same grid without rivers or POIs
BudgetConfigs ==
    {Config(RiverDims[1], RiverDims[2], 1337, "default", DryBiomes, Counts(1, 1, 1, 2), 1),
     Config(RiverDims[1], RiverDims[2], 1337, "default", DefaultBiomes, Counts(0, 0, 0, 4), 0)}

BudgetInit == FreshInit(BudgetConfigs)
BudgetSpec == BudgetInit /\ [][FreshNext]_vars

\* a ridge of noise: a fixed rim that rises towards the middle of each side,
\* and any levels on the three inner cells, so that two rivers can start
\* inside the grid and meet
RidgeLevels == 0..9

RidgeRim == <<5, 6, 3, 6, 5>>

RidgeField(a, b, c) ==
    [t \in Cells(RiverDims[1], RiverDims[2]) |->
        IF t[2] # 1 THEN RidgeRim[t[1] + 1]
        ELSE CASE t[1] = 1 -> a [] t[1] = 2 -> b [] t[1] = 3 -> c [] OTHER -> RidgeRim[1]]

RidgeConfigs ==
    {Config(RiverDims[1], RiverDims[2], 1337, "default", th, Counts(0, 0, 0, 4), 2) :
        th \in {DefaultBiomes, DryBiomes}}

RidgeInit ==
    /\ cfg \in RidgeConfigs
    /\ \E a \in RidgeLevels, b \in RidgeLevels, c \in RidgeLevels :
          fbm = [k \in {<<cfg.seed, cfg.noise>>} |-> RidgeField(a, b, c)]
    /\ mt = [sd \in {cfg.seed} |-> FixedStream]
    /\ rng = [stream |-> mt[cfg.seed], pos |-> 0]
    /\ gen = None
    /\ files = [k \in {KeyOf(cfg)} |-> NoFile]
    /\ dirOk = TRUE /\ writable = TRUE
    /\ ret = None /\ lastGen = None /\ start = None /\ world = None
    /\ first = [c \in {cfg} |-> None]

RidgeSpec == RidgeInit /\ [][FreshNext]_vars

\* ------------------------------- heightmap and biomes, cache bypassed
BiomeDims == <<2, 2>>

\* thresholds as worldgen.json may give them: in order, out of order, out of
\* range, and with keys missing
InvertedBiomes == [water |-> 50, sand |-> 30, grass |-> 65, forest |-> 80]
WildBiomes == [water |-> 0 - 10, sand |-> 36, grass |-> 120, forest |-> 80]
NoForestBiomes == [water |-> 30, sand |-> 36, grass |-> 65]
OnlyGrassBiomes == [grass |-> 65]

BiomeConfigs ==
    {Config(BiomeDims[1], BiomeDims[2], 1337, "default", th, Counts(0, 0, 0, 4), 0) :
        th \in {DefaultBiomes, InvertedBiomes, WildBiomes, NoForestBiomes, OnlyGrassBiomes}}
    \cup {Config(1, 1, 1337, "default", DefaultBiomes, Counts(0, 0, 0, 4), 0)}

BiomeInit == FreshInit(BiomeConfigs)

\* the end of a map_core pipeline that ran with the cache bypassed
core_generated(g) ==
    /\ gen' = g @@ [again |-> FALSE]
    /\ rng' = g.rng
    /\ ret' = [kind |-> "world", world |-> assemble(cfg, g, "map_core"),
               fresh |-> TRUE, key |-> KeyOf(cfg)]

\* the pipeline of map_core.generate_map, steps 1 to 5, on a cache miss
core_pipeline(h) ==
    /\ h.ok
    /\ IF core_biomemap_raises(h.hm, cfg.biomes)
       THEN /\ ret' = Raise("KeyError")
            /\ UNCHANGED <<gen, rng>>
       ELSE core_generated(stages(cfg, h.hm, "map_core", SeededRng(cfg.seed)))

CoreFreshGenerate ==
    /\ gen = None /\ ret = None
    /\ core_pipeline(heightmap(cfg.width, cfg.height, cfg.seed, cfg.noise))
    /\ UNCHANGED <<fbm, mt, cfg, files, dirOk, writable, lastGen, first, start, world>>

BiomeNext == FreshGenerate \/ CoreFreshGenerate

BiomeSpec == BiomeInit /\ [][BiomeNext]_vars

\* ------------------------------------ road connection on drawn POI lists
\* the lists _place_pois can return on the placement grid: castles, then
\* towns, then dungeons, on tiles of a grid that is grass throughout
PoiKinds == <<"castle", "town", "dungeon">>

KindIndex(kind) == CHOOSE n \in 1..Len(PoiKinds) : PoiKinds[n] = kind

PoiLists ==
    UNION {{p \in [1..n -> [x : 0..(PoiDims[1] - 1), y : 0..(PoiDims[2] - 1),
                            type : Range(PoiKinds)]] :
               \A k \in 1..(n - 1) : KindIndex(p[k].type) <= KindIndex(p[k + 1].type)} :
           n \in 0..MaxPois}

GrassGrid == [j \in 1..PoiDims[2] |-> [i \in 1..PoiDims[1] |-> "grass"]]

RoadInit ==
    /\ cfg = Config(PoiDims[1], PoiDims[2], 1337, "default", DefaultBiomes,
                    Counts(0, 0, 0, 0), 0)
    /\ fbm = [k \in {<<cfg.seed, cfg.noise>>} |-> Field(cfg.width, cfg.height, {}, {})]
    /\ mt = [sd \in {cfg.seed} |-> FixedStream]
    /\ rng = [stream |-> mt[cfg.seed], pos |-> 0]
    /\ \E p \in PoiLists : gen = [kind |-> "placed", bm |-> GrassGrid, pois |-> p]
    /\ files = [k \in {KeyOf(cfg)} |-> NoFile]
    /\ dirOk = TRUE /\ writable = TRUE
    /\ ret = None /\ lastGen = None /\ start = None /\ world = None
    /\ first = [c \in {cfg} |-> None]

\* roads = _connect_pois_with_roads(bm, pois)
ConnectRoads ==
    /\ gen.kind = "placed"
    /\ gen' = [kind |-> "connected", bm |-> gen.bm, pois |-> gen.pois]
                  @@ connect_pois_with_roads(gen.bm, gen.pois)
    /\ UNCHANGED <<fbm, mt, rng, cfg, files, dirOk, writable, ret, lastGen, first, start, world>>

RoadNext == ConnectRoads

RoadSpec == RoadInit /\ [][RoadNext]_vars

\* ------------------------------------------------ requests against the cache
Entry(f) == IF f = NoFile THEN "absent" ELSE IF load_ok(f) THEN "pickle" ELSE "garbage"

Returned(w, isFresh) ==
    [kind |-> "world", world |-> w, fresh |-> isFresh, key |-> KeyOf(cfg)]

\* what a request that generated leaves behind: the entry when the write
\* went through, and the record of the stages it ran
Store(w, g, f) ==
    /\ gen' = g @@ [again |-> first[cfg] # None]
    /\ first' = IF first[cfg] = None THEN [first EXCEPT ![cfg] = g] ELSE first
    /\ files' = IF writable THEN [files EXCEPT ![KeyOf(cfg)] = dumps(w)] ELSE files
    /\ lastGen' = IF writable
                  THEN [key |-> KeyOf(cfg), world |-> w, found |-> Entry(f), cfg |-> cfg]
                  ELSE lastGen

\* the end of a request that generated: the dict is assembled, written and
\* returned
Generated(g, api, f) ==
    /\ ret' = Returned(assemble(cfg, g, api), TRUE)
    /\ rng' = g.rng
    /\ Store(assemble(cfg, g, api), g, f)

\* the end of a map_generator request whose entry loaded: the normalised dict
\* is written back and returned
Reloaded(cached) ==
    /\ ret' = Returned(cached, FALSE)
    /\ files' = IF writable THEN [files EXCEPT ![KeyOf(cfg)] = dumps(cached)] ELSE files
    /\ rng' = SeededRng(cfg.seed)
    /\ UNCHANGED <<gen, first, lastGen>>

\* a map_generator request that found no loadable entry
Regenerate(h, f) ==
    IF ~h.ok
    THEN /\ ret' = Raise(h.err)
         /\ rng' = SeededRng(cfg.seed)
         /\ UNCHANGED <<gen, first, files, lastGen>>
    ELSE Generated(stages(cfg, h.hm, "map_generator", SeededRng(cfg.seed)),
                   "map_generator", f)

\* the body of generate_map: the cached dict, or a generated one
cached_or_generated ==
    IF ~dirOk
    THEN \* _cache_path: _ensure_dir raises, outside every try
         /\ ret' = Raise("OSError")
         /\ UNCHANGED <<rng, gen, first, files, lastGen>>
    ELSE IF load_ok(files[KeyOf(cfg)])
    THEN Reloaded(normalize_world_dict(loads(files[KeyOf(cfg)])))
    ELSE Regenerate(heightmap(cfg.width, cfg.height, cfg.seed, cfg.noise),
                    files[KeyOf(cfg)])

\* worldgen.map_generator.generate_map
generate_map ==
    /\ cached_or_generated
    /\ UNCHANGED <<fbm, mt, cfg, dirOk, writable, start, world>>

\* int(world_data.get(k, 0))
IntOf(d, k) ==
    IF k \notin DOMAIN d THEN [ok |-> TRUE, val |-> 0]
    ELSE IF d[k].ty = "int" THEN [ok |-> TRUE, val |-> d[k].val]
    ELSE [ok |-> FALSE, err |-> "TypeError"]

\* the attributes World.__init__ sets from the seed it was given and the dict
\* the generator returned
WorldObject(sd, r) ==
    [kind |-> "World", seed |-> sd, map |-> r.world,
     width |-> IntOf(r.world, "width").val, height |-> IntOf(r.world, "height").val,
     locations |-> r.world.locations, name |-> <<"World-", sd>>]

\* the object a finished constructor leaves, if it leaves one
constructed(sd, r) ==
    IF /\ r.kind = "world"
       /\ IntOf(r.world, "width").ok /\ IntOf(r.world, "height").ok
    THEN WorldObject(sd, r)
    ELSE None

\* World(seed), seed being <<s>> or <<>> for None: the seed given, or a rolled
\* one, goes to MapGenerator, which drops it; the map is whatever
\* generate_map() returns
World(seed) ==
    /\ cached_or_generated
    /\ \E sd \in (IF seed = <<>> THEN Seeds ELSE {seed[1]}) : world' = constructed(sd, ret')
    /\ UNCHANGED <<fbm, mt, cfg, dirOk, writable, start>>

\* a map_core request that found no loadable entry
core_regenerate(h, f) ==
    IF ~h.ok
    THEN /\ ret' = Raise(h.err)
         /\ UNCHANGED <<rng, gen, first, files, lastGen>>
    ELSE IF core_biomemap_raises(h.hm, cfg.biomes)
    THEN \* generate_biome_map on thresholds that lack a key
         /\ ret' = Raise("KeyError")
         /\ UNCHANGED <<rng, gen, first, files, lastGen>>
    ELSE Generated(stages(cfg, h.hm, "map_core", SeededRng(cfg.seed)), "map_core", f)

\* worldgen.map_core.generate_map, on worldgen.cache
core_generate_map ==
    /\ IF ~dirOk
       THEN \* load_from_cache: cache_path -> cache_dir -> ensure_dir raises
            /\ ret' = Raise("OSError")
            /\ UNCHANGED <<rng, gen, first, files, lastGen>>
       ELSE IF load_ok(files[KeyOf(cfg)])
       THEN \* if cached: return cached
            /\ ret' = Returned(loads(files[KeyOf(cfg)]), FALSE)
            /\ UNCHANGED <<rng, gen, first, files, lastGen>>
       ELSE core_regenerate(heightmap(cfg.width, cfg.height, cfg.seed, cfg.noise),
                            files[KeyOf(cfg)])
    /\ UNCHANGED <<fbm, mt, cfg, dirOk, writable, start, world>>

\* ---------------------------------------------------------- the environment
\* worldgen.json is edited
EditConfig ==
    /\ \E c \in MainConfigs \ {cfg} : cfg' = c
    /\ UNCHANGED <<fbm, mt, rng, gen, files, dirOk, writable, ret, lastGen, first, start, world>>

Forget(k) == IF lastGen # None /\ lastGen.key = k THEN None ELSE lastGen

\* a cache file is removed
DeleteEntry ==
    /\ \E k \in DOMAIN files :
          /\ files[k] # NoFile
          /\ files' = [files EXCEPT ![k] = NoFile]
          /\ lastGen' = Forget(k)
    /\ UNCHANGED <<fbm, mt, rng, cfg, gen, dirOk, writable, ret, first, start, world>>

\* a cache file is truncated or overwritten with something pickle cannot load
CorruptEntry ==
    /\ dirOk
    /\ \E k \in DOMAIN files :
          /\ files[k] # Garbage
          /\ files' = [files EXCEPT ![k] = Garbage]
          /\ lastGen' = Forget(k)
    /\ UNCHANGED <<fbm, mt, rng, cfg, gen, dirOk, writable, ret, first, start, world>>

\* the cache directory is gone and cannot be made again (os.makedirs raises)
BlockDir ==
    /\ dirOk
    /\ \A k \in DOMAIN files : files[k] = NoFile
    /\ dirOk' = FALSE
    /\ UNCHANGED <<fbm, mt, rng, cfg, gen, files, writable, ret, lastGen, first, start, world>>

UnblockDir ==
    /\ ~dirOk
    /\ dirOk' = TRUE
    /\ UNCHANGED <<fbm, mt, rng, cfg, gen, files, writable, ret, lastGen, first, start, world>>

\* the files of the directory become read-only, or writable again
Chmod ==
    /\ writable' = ~writable
    /\ UNCHANGED <<fbm, mt, rng, cfg, gen, files, dirOk, ret, lastGen, first, start, world>>

\* -------------------------------------------------------- starting position
\* the attributes GameWorld.__init__ sets
GameWorld(w) ==
    [world |-> w, rooms |-> <<>>, character_name |-> "name", theme |-> "theme",
     world_dir |-> "dir", theme_data |-> <<>>, world_state |-> <<>>]

\* int() of the digits of a key on each side of its comma
Num(ds) == IF Len(ds) = 1 THEN ds[1] ELSE 10 * ds[1] + ds[2]
KeyXY(key) ==
    LET c == CHOOSE k \in 1..Len(key) : key[k] = ","
    IN  <<Num(SubSeq(key, 1, c - 1)), Num(SubSeq(key, c + 1, Len(key)))>>

\* PlayerManager.find_starting_position, the statements before the raise
starting_position(game_world) ==
    IF "starting_room_id" \in DOMAIN game_world
    THEN [kind |-> "xy", xy |-> KeyXY(game_world.starting_room_id)]
    ELSE [kind |-> "raise", err |-> "RuntimeError"]

find_starting_position ==
    /\ ret.kind = "world"
    /\ start' = starting_position(GameWorld(ret.world))
    /\ UNCHANGED <<fbm, mt, rng, cfg, gen, files, dirOk, writable, ret, lastGen, first, world>>

Init ==
    /\ fbm = RealFbm
    /\ mt = RealDraws
    /\ cfg \in MainConfigs
    /\ rng = [stream |-> RealDraws[cfg.seed], pos |-> 0]
    /\ gen = None
    /\ files = [k \in MainKeys |-> NoFile]
    /\ dirOk = TRUE /\ writable = TRUE
    /\ ret = None /\ lastGen = None /\ start = None /\ world = None
    /\ first = [c \in MainConfigs |-> None]

Next ==
    \/ generate_map
    \/ core_generate_map
    \/ EditConfig
    \/ DeleteEntry
    \/ CorruptEntry
    \/ BlockDir
    \/ UnblockDir
    \/ Chmod
    \/ find_starting_position

Spec == Init /\ [][Next]_vars

\* World objects constructed one after another under one worldgen.json
WorldNext ==
    \/ \E seed \in {<<>>} \cup {<<s>> : s \in Seeds} : World(seed)
    \/ DeleteEntry
    \/ CorruptEntry
    \/ BlockDir
    \/ UnblockDir
    \/ Chmod

WorldSpec == Init /\ [][WorldNext]_vars

\* =================================================================== claims
TilesOf(g) == {c \in Cells(GridW(g), GridH(g)) : At(g, c[1], c[2])}
FreshWorld == ret.kind = "world" /\ ret.fresh

\* C1: in the World a fresh generation returns, every tile marked in the
\* rivers grid is "water" in the biomes grid.
C1_RiverTilesAreWater ==
    FreshWorld =>
        \A c \in TilesOf(ret.world.rivers) : At(ret.world.biomes, c[1], c[2]) = "water"

\* a fresh world with a river tile that the thresholds had not made water
C1_Witness ==
    /\ FreshWorld /\ gen # None
    /\ \E c \in TilesOf(ret.world.rivers) : At(gen.bm0, c[1], c[2]) # "water"

\* C2: every placed POI stands on a biome its type allows, as the grid is
\* after river carving, and any two POIs of the list are min_spacing apart.
C2_PoisEligibleAndSpaced ==
    gen # None =>
        /\ \A k \in 1..Len(gen.pois) :
              At(gen.bm, gen.pois[k].x, gen.pois[k].y) \in
                  (IF gen.pois[k].type = "dungeon" THEN {"mountain", "forest", "grass"}
                   ELSE {"grass", "forest"})
        /\ \A k, l \in 1..Len(gen.pois) :
              k # l => manhattan(<<gen.pois[k].x, gen.pois[k].y>>,
                                 <<gen.pois[l].x, gen.pois[l].y>>) >= cfg.poi.min_spacing

\* two POIs were placed under a positive spacing, and the stream had drawn
\* a tile in between that the spacing refused
C2_Witness ==
    /\ gen # None /\ cfg.poi.min_spacing > 0
    /\ Len(gen.pois) >= 2
    /\ \E k \in 1..Len(gen.attempts) : gen.attempts[k] > 1

\* C3: no tile marked in the roads grid is "water" in the final biomes grid.
C3_NoRoadOnWater ==
    FreshWorld =>
        \A c \in TilesOf(ret.world.roads) : At(ret.world.biomes, c[1], c[2]) # "water"

\* a road was laid, and one road had only water around its start
C3_Witness ==
    /\ FreshWorld /\ gen # None
    /\ TilesOf(ret.world.roads) # {}
    /\ \E k \in 1..Len(gen.links) : gen.paths[k] = <<>> /\ gen.links[k][1] # gen.links[k][2]

EndsOnWaterOrEdge(w) ==
    LET c == Last(w.path)
    IN  At(gen.bm0, c[1], c[2]) = "water" \/ OnEdge(c, cfg.width, cfg.height)

\* C10 as stated: each river starts at a local height maximum and its walk
\* ends on a tile that was already water or lies on the map edge.
C10_Original ==
    gen # None =>
        \A k \in 1..Len(gen.walks) :
            IsPeak(gen.hm, gen.walks[k].path[1]) /\ EndsOnWaterOrEdge(gen.walks[k])

\* C10 amended: ... or the walk has used all of its 2*W*H iterations.
C10_RiverEndsOrBudget ==
    gen # None =>
        \A k \in 1..Len(gen.walks) :
            /\ IsPeak(gen.hm, gen.walks[k].path[1])
            /\ \/ EndsOnWaterOrEdge(gen.walks[k])
               \/ Len(gen.walks[k].path) = 2 * cfg.width * cfg.height

\* a river that left its source and stopped on water or the edge, and one
\* that ran out of iterations
C10_Witness ==
    /\ gen # None
    /\ \E k \in 1..Len(gen.walks) :
          Len(gen.walks[k].path) >= 3 /\ gen.walks[k].end = "stop"

C10_BudgetWitness ==
    /\ gen # None
    /\ \E k \in 1..Len(gen.walks) : gen.walks[k].end = "budget"

\* ------------------------------------------------------ claims on the cache
IsRequest == generate_map \/ core_generate_map

\* the heightmap grid of a world dict, under whichever name it is stored
HeightmapOf(w) == IF "heightmap" \in DOMAIN w THEN w.heightmap ELSE w.height.val

\* equal grid for grid and location for location
SameWorld(a, b) ==
    /\ HeightmapOf(a) = HeightmapOf(b)
    /\ a.biomes = b.biomes /\ a.rivers = b.rivers /\ a.roads = b.roads
    /\ a.locations = b.locations

\* C4: a fresh generation under a configuration that was generated from
\* before produces the heightmap, biomes, rivers and roads grids and the POI
\* list, in order, of the first generation under that configuration.
C4_FreshGenerationsAgree ==
    (gen # None /\ gen.again) =>
        LET g == first[gen.cfg]
        IN  /\ gen.hm = g.hm /\ gen.bm = g.bm
            /\ gen.rivers = g.rivers /\ gen.roads = g.roads
            /\ gen.pois = g.pois

\* a configuration was generated a second time, and it places several POIs
C4_Witness ==
    /\ gen # None /\ gen.again
    /\ Len(gen.pois) >= 2

\* C5: once a request has generated a world and stored it, a request for the
\* same key returns a world equal to it, grid for grid and location for
\* location, without generating.
C5_CacheRoundTrip ==
    [][(IsRequest /\ lastGen # None /\ lastGen.key = KeyOf(cfg)) =>
          /\ ret'.kind = "world" /\ ~ret'.fresh
          /\ SameWorld(ret'.world, lastGen.world)
          /\ gen' = gen]_vars

\* a request was answered from the entry that a generation over an
\* unreadable entry had stored, with locations in it
C5_Witness ==
    /\ ret.kind = "world" /\ ~ret.fresh
    /\ lastGen # None /\ lastGen.key = ret.key /\ lastGen.found = "garbage"
    /\ ret.world.locations # <<>>

\* C6 as stated: when the entry of the requested key loads, generate_map
\* returns exactly the stored world and leaves the entry as it was.
C6_HitReturnsStored ==
    [][(IsRequest /\ dirOk /\ load_ok(files[KeyOf(cfg)])) =>
          /\ ret'.kind = "world"
          /\ ret'.world = loads(files[KeyOf(cfg)])
          /\ files'[KeyOf(cfg)] = files[KeyOf(cfg)]]_vars

\* C7 as stated: an entry that does not load is a miss and a fresh world is
\* returned, and no failure of the cache reaches the caller (the only
\* exception a request raises is the ValueError of an empty grid).
C7_CacheFailuresContained ==
    [][IsRequest =>
          /\ (files[KeyOf(cfg)] = Garbage /\ cfg.width > 0 /\ cfg.height > 0)
                => (ret'.kind = "world" /\ ret'.fresh)
          /\ ret'.kind = "raise" => ret'.err = "ValueError"]_vars

\* C8 as stated: every returned world has integer width and height, a seed,
\* a heightmap and locations, four grids of height rows by width columns, and
\* biome labels of the five biomes.
C8_WorldWellFormed ==
    ret.kind = "world" =>
        LET w == ret.world
        IN  /\ w.width.ty = "int" /\ w.height.ty = "int"
            /\ {"seed", "heightmap", "locations"} \subseteq DOMAIN w
            /\ IsGrid(w.heightmap, w.width.val, w.height.val)
            /\ IsGrid(w.biomes, w.width.val, w.height.val)
            /\ IsGrid(w.rivers, w.width.val, w.height.val)
            /\ IsGrid(w.roads, w.width.val, w.height.val)
            /\ \A c \in Cells(w.width.val, w.height.val) : At(w.biomes, c[1], c[2]) \in Biomes

\* the pair the starting-location rule names for a locations dict
StartFor(locs, xy) ==
    LET dungeons == {k \in 1..Len(locs) : locs[k].val.type = "dungeon"}
    IN  IF dungeons # {} THEN \E k \in dungeons : xy = KeyXY(locs[k].key)
        ELSE IF locs # <<>> THEN xy = KeyXY(locs[1].key)
        ELSE xy = <<0, 0>>

\* C9 as stated: the lookup returns a dungeon's coordinates when the world
\* has a dungeon, else the first location's, else (0, 0), and never raises.
C9_StartResolved ==
    [][find_starting_position =>
          /\ start'.kind = "xy"
          /\ StartFor(ret.world.locations, start'.xy)]_vars

\* ------------------------------------------------- claims on the budgets
\* C11: a fresh generation of a configuration with width > 0 and height > 0
\* comes to an end within the budgets of its loops: a river walk marks at most
\* 2*W*H tiles, a road walk at most W*H, and a POI placement makes at most
\* 4000 attempts; every requested placement is made.
C11_WalksWithinBudget ==
    (gen # None /\ cfg.width > 0 /\ cfg.height > 0) =>
        /\ \A k \in 1..Len(gen.walks) :
              Len(gen.walks[k].path) <= 2 * cfg.width * cfg.height
        /\ \A k \in 1..Len(gen.paths) : Len(gen.paths[k]) <= cfg.width * cfg.height
        /\ \A k \in 1..Len(gen.attempts) : gen.attempts[k] <= Tries
        /\ Len(gen.attempts) = cfg.poi.castles + cfg.poi.towns + cfg.poi.dungeons

\* a generation in which a river walk, a road walk and a placement each used
\* its whole budget
C11_Witness ==
    /\ gen # None
    /\ \E k \in 1..Len(gen.walks) :
          Len(gen.walks[k].path) = 2 * cfg.width * cfg.height
    /\ \E k \in 1..Len(gen.paths) : Len(gen.paths[k]) = cfg.width * cfg.height
    /\ \E k \in 1..Len(gen.attempts) : gen.attempts[k] = Tries

\* ---------------------------------------------- claims on POI placement
\* the placements a configuration asks for, in the order claimed
Requested(poi) ==
    Repeat("castle", poi.castles) \o Repeat("town", poi.towns)
        \o Repeat("dungeon", poi.dungeons)

Rank(kind) == CASE kind = "castle" -> 1 [] kind = "town" -> 2 [] OTHER -> 3

RECURSIVE SumTo(_, _)
SumTo(s, n) == IF n = 0 THEN 0 ELSE s[n] + SumTo(s, n - 1)

\* the placements that found a tile, in order
Accepted(attempts) ==
    SelectSeq2([j \in 1..Len(attempts) |-> j],
               {j \in 1..Len(attempts) : attempts[j] < Tries})

PlacedOf(kind) == Cardinality({k \in 1..Len(gen.pois) : gen.pois[k].type = kind})

ExhaustedOf(kind) ==
    Cardinality({j \in 1..Len(gen.attempts) :
                    Requested(cfg.poi)[j] = kind /\ gen.attempts[j] = Tries})

\* C12: the POI list holds the castles, then the towns, then the dungeons,
\* each POI at the tile its placement accepted and in the order of acceptance;
\* of a type no more are placed than requested, and fewer only by placements
\* that used all of their 4000 attempts; every requested placement is still
\* made after one has failed.
C12_PlacementOrderAndCounts ==
    gen # None =>
        /\ \A k, l \in 1..Len(gen.pois) :
              k < l => Rank(gen.pois[k].type) <= Rank(gen.pois[l].type)
        /\ Len(gen.attempts) = Len(Requested(cfg.poi))
        /\ Len(gen.pois) = Len(Accepted(gen.attempts))
        /\ \A k \in 1..Len(gen.pois) :
              /\ gen.pois[k].type = Requested(cfg.poi)[Accepted(gen.attempts)[k]]
              /\ <<gen.pois[k].x, gen.pois[k].y>> =
                     DrawAt([stream |-> mt[cfg.seed], pos |-> 0],
                            SumTo(gen.attempts, Accepted(gen.attempts)[k]) - 1,
                            cfg.width, cfg.height)
        /\ \A kind \in {"castle", "town", "dungeon"} :
              /\ PlacedOf(kind) <= Cardinality({j \in 1..Len(Requested(cfg.poi)) :
                                                    Requested(cfg.poi)[j] = kind})
              /\ PlacedOf(kind) + ExhaustedOf(kind) =
                     Cardinality({j \in 1..Len(Requested(cfg.poi)) :
                                     Requested(cfg.poi)[j] = kind})

\* a castle and a town each used all attempts, and the dungeon requested after
\* them was placed
C12_Witness ==
    /\ gen # None
    /\ ExhaustedOf("castle") = 1 /\ ExhaustedOf("town") = 1
    /\ PlacedOf("dungeon") = 1

\* ------------------------------------------------ claims on road connection
XY(p) == <<p.x, p.y>>

\* the indices of the POIs of a type, in list order
OfType(pois, kind) ==
    SelectSeq2([k \in 1..Len(pois) |-> k], {k \in 1..Len(pois) : pois[k].type = kind})

\* where a town's road may lead: the castles, or without castles the towns
\* at other coordinates
Pool(pois, t) ==
    IF OfType(pois, "castle") # <<>>
    THEN {XY(pois[k]) : k \in Range(OfType(pois, "castle"))}
    ELSE {XY(pois[k]) : k \in Range(OfType(pois, "town"))} \ {XY(pois[t])}

\* the towns that have somewhere to lead a road to, in list order
Linked(pois) ==
    SelectSeq2(OfType(pois, "town"),
               {t \in Range(OfType(pois, "town")) : Pool(pois, t) # {}})

\* C13: the road walks started are, in order, one from each town to a castle
\* at the least Manhattan distance from it, or without castles to a town at
\* other coordinates at the least distance, then one from each castle to the
\* next castle of the list; a town with no castle and no town elsewhere gets
\* none, and every walk starts and ends at a town or a castle.
C13_RoadLinks ==
    gen.kind = "connected" =>
        /\ Len(gen.paths) = Len(gen.links)
        /\ Len(gen.links) = Len(Linked(gen.pois))
                               + Max2(0, Len(OfType(gen.pois, "castle")) - 1)
        /\ \A n \in 1..Len(Linked(gen.pois)) :
              /\ gen.links[n][1] = XY(gen.pois[Linked(gen.pois)[n]])
              /\ gen.links[n][2] \in Pool(gen.pois, Linked(gen.pois)[n])
              /\ \A q \in Pool(gen.pois, Linked(gen.pois)[n]) :
                    manhattan(gen.links[n][1], gen.links[n][2])
                        <= manhattan(gen.links[n][1], q)
        /\ \A i \in 1..(Len(OfType(gen.pois, "castle")) - 1) :
              gen.links[Len(Linked(gen.pois)) + i] =
                  <<XY(gen.pois[OfType(gen.pois, "castle")[i]]),
                    XY(gen.pois[OfType(gen.pois, "castle")[i + 1]])>>

\* two castles and a town nearer to the second castle than to the first
C13_Witness ==
    /\ gen.kind = "connected"
    /\ Len(OfType(gen.pois, "castle")) = 2 /\ Len(OfType(gen.pois, "town")) = 1
    /\ Len(gen.links) = 2
    /\ gen.links[1][2] = XY(gen.pois[2]) /\ gen.links[1][2] # XY(gen.pois[1])
    /\ gen.links[2] = <<XY(gen.pois[1]), XY(gen.pois[2])>>

\* ------------------------------------------- claims on biomes and heights
ThresholdOrder == <<"water", "sand", "grass", "forest">>

\* the label of the first threshold strictly above h, "mountain" without one
FirstAbove(h, th) ==
    LET above == {n \in 1..Len(ThresholdOrder) : h < Get(th, ThresholdOrder[n])}
    IN  IF above = {} THEN "mountain" ELSE ThresholdOrder[MinOf(above)]

IsGeneration == FreshGenerate \/ CoreFreshGenerate

\* the thresholds the pipeline that just returned handed to its classifier
Handed(w) ==
    IF "heightmap" \in DOMAIN w THEN normalize_biome_thresholds(cfg.biomes) ELSE cfg.biomes

\* C14: whatever the thresholds, missing or out of order, classification
\* never raises and labels each cell by the first of water, sand, grass,
\* forest whose threshold is strictly above the cell's height, and mountain
\* when none is.
C14_ClassifierTotal ==
    [][IsGeneration =>
          /\ ret'.kind = "world"
          /\ \A c \in Cells(cfg.width, cfg.height) :
                At(gen'.bm0, c[1], c[2]) \in Biomes
                /\ At(gen'.bm0, c[1], c[2])
                      = FirstAbove(At(gen'.hm, c[1], c[2]), Handed(ret'.world))]_vars

\* the repaired value before the n-th threshold, 0 before the first
Predecessor(r, n) == IF n = 1 THEN 0 ELSE r[ThresholdOrder[n - 1]]

\* the rule of the repair, threshold by threshold
RepairedByRule(th, r) ==
    \A n \in 1..Len(ThresholdOrder) :
        /\ r[ThresholdOrder[n]] \in 0..Scale
        /\ r[ThresholdOrder[n]] >= Predecessor(r, n)
        /\ r[ThresholdOrder[n]] =
              (IF Max2(0, Min2(Scale, Get(th, ThresholdOrder[n]))) < Predecessor(r, n)
               THEN Min2(Scale, Predecessor(r, n) + 1)
               ELSE Max2(0, Min2(Scale, Get(th, ThresholdOrder[n]))))

\* C15: threshold repair returns four values in [0,1] in non-decreasing
\* order, a value below its predecessor having become the predecessor + 0.01
\* capped at 1.0, and the biome grid of a generation is the classification of
\* its heightmap under the repaired thresholds.
C15_RepairedThresholdsUsed ==
    /\ RepairedByRule(cfg.biomes, normalize_biome_thresholds(cfg.biomes))
    /\ gen # None =>
          gen.bm0 = [j \in 1..cfg.height |-> [i \in 1..cfg.width |->
                        FirstAbove(gen.hm[j][i], normalize_biome_thresholds(cfg.biomes))]]

\* the raw samples of the configured grid are all the same
FlatNoise ==
    \A c, d \in Cells(cfg.width, cfg.height) :
        fbm[<<cfg.seed, cfg.noise>>][c] = fbm[<<cfg.seed, cfg.noise>>][d]

HeightmapShaped ==
    /\ Len(gen.hm) = cfg.height
    /\ \A j \in 1..cfg.height :
          /\ Len(gen.hm[j]) = cfg.width
          /\ \A i \in 1..cfg.width : gen.hm[j][i] \in 0..Scale

\* C16 as stated: the heightmap has H rows of W values in [0,1], and unless
\* W*H = 1 its least value is 0 and its greatest is 1.
C16_Original ==
    gen # None =>
        /\ HeightmapShaped
        /\ cfg.width * cfg.height # 1 =>
              MinOf(GridVals(gen.hm)) = 0 /\ MaxOf(GridVals(gen.hm)) = Scale

\* C16 amended: the heightmap has H rows of W values in [0,1] and its least
\* value is 0; its greatest value is 1 unless the raw samples are all the same
\* (as they are when W*H = 1), and then every value is 0.
C16_HeightmapNormalised ==
    gen # None =>
        /\ HeightmapShaped
        /\ MinOf(GridVals(gen.hm)) = 0
        /\ MaxOf(GridVals(gen.hm)) = (IF FlatNoise THEN 0 ELSE Scale)

\* a grid of several cells whose samples differ, none of them 0 before the
\* rescaling
C16_Witness ==
    /\ gen # None /\ cfg.width * cfg.height > 1 /\ ~FlatNoise
    /\ \A c \in Cells(cfg.width, cfg.height) : fbm[<<cfg.seed, cfg.noise>>][c] > 0
    /\ MaxOf(GridVals(gen.hm)) = Scale

\* ---------------------------------------------------- claims on locations
LabelOf(kind) ==
    CASE kind = "town" -> "Town" [] kind = "castle" -> "Castle" [] OTHER -> "Dungeon"

\* C17: for each type, the k-th POI of the type in placement order has an
\* entry in the locations map under its "x,y" key, with its type and the name
\* "Town k", "Castle k" or "Dungeon k".
C17_LocationsNamed ==
    gen # None =>
        \A kind \in {"town", "castle", "dungeon"} :
            \A k \in 1..Len(OfType(gen.pois, kind)) :
                \E n \in 1..Len(gen.locations) :
                    /\ gen.locations[n].key =
                          LocKey(gen.pois[OfType(gen.pois, kind)[k]].x,
                                 gen.pois[OfType(gen.pois, kind)[k]].y)
                    /\ gen.locations[n].val = [type |-> kind, name |-> <<LabelOf(kind), k>>]

\* ------------------------------------------------- claims on the requests
\* C18: a generation request raises only under a configuration with
\* width <= 0 or height <= 0, and then it stores no cache entry; under every
\* other configuration it returns a World.
C18_RaisesOnlyOnEmptyGrid ==
    [][IsRequest =>
          /\ ret'.kind \in {"raise", "world"}
          /\ ret'.kind = "raise" =>
                /\ cfg.width <= 0 \/ cfg.height <= 0
                /\ files' = files]_vars

\* the entry last stored was stored for the triple of the current
\* configuration, under a configuration that differs from it otherwise
StoredUnderOtherConfig ==
    /\ lastGen # None
    /\ lastGen.cfg.seed = cfg.seed
    /\ lastGen.cfg.width = cfg.width /\ lastGen.cfg.height = cfg.height
    /\ lastGen.cfg # cfg

\* C19: while the entry stored for (seed, width, height) has not been deleted,
\* a request with that triple returns the stored world without generating
\* and leaves an entry holding it, also when the noise, the thresholds, the
\* POI counts, min_spacing or the river count have changed since.
C19_EntrySurvivesConfigChange ==
    [][(IsRequest /\ StoredUnderOtherConfig) =>
          /\ ret'.kind = "world" /\ ~ret'.fresh
          /\ SameWorld(ret'.world, lastGen.world)
          /\ gen' = gen
          /\ load_ok(files'[KeyOf(cfg)])
          /\ SameWorld(loads(files'[KeyOf(cfg)]), lastGen.world)]_vars

\* a request was answered from an entry stored under other noise, thresholds
\* and POI counts
C19_Witness ==
    /\ StoredUnderOtherConfig
    /\ ret.kind = "world" /\ ~ret.fresh /\ ret.key = KeyOf(cfg)
    /\ SameWorld(ret.world, lastGen.world)
    /\ lastGen.cfg.noise # cfg.noise /\ lastGen.cfg.biomes # cfg.biomes
    /\ lastGen.cfg.poi # cfg.poi /\ lastGen.cfg.rivers # cfg.rivers

\* ------------------------------------------- claims on the river frame
\* C20: river carving changes the biome grid at no tile it did not mark and
\* leaves the heightmap as it was built; with river_count = 0 it marks no
\* tile, the rivers grid is all False and every biome label is the one the
\* thresholds gave.
C20_CarvingFrame ==
    gen # None =>
        /\ \A c \in Cells(cfg.width, cfg.height) :
              At(gen.bm, c[1], c[2]) # At(gen.bm0, c[1], c[2])
                  => At(gen.rivers, c[1], c[2])
        /\ gen.hm = normalise(RawGrid(cfg.width, cfg.height, cfg.seed, cfg.noise))
        /\ ret.world.heightmap = gen.hm
        /\ cfg.rivers = 0 =>
              /\ gen.walks = <<>>
              /\ \A c \in Cells(cfg.width, cfg.height) :
                    /\ ~At(ret.world.rivers, c[1], c[2])
                    /\ At(ret.world.biomes, c[1], c[2])
                          = FirstAbove(At(gen.hm, c[1], c[2]),
                                       normalize_biome_thresholds(cfg.biomes))

\* a generation without rivers on a grid whose highest tile is an interior
\* mountain, which a river would have turned to water
C20_Witness ==
    /\ gen # None /\ cfg.rivers = 0
    /\ \E c \in Cells(cfg.width, cfg.height) :
          /\ ~OnEdge(c, cfg.width, cfg.height)
          /\ At(gen.hm, c[1], c[2]) = Scale
          /\ At(ret.world.biomes, c[1], c[2]) = "mountain"

\* ------------------------------------------------- claims on single roads
\* the links that lead from a town to a castle
CastleLinks ==
    IF OfType(gen.pois, "castle") = <<>> THEN {}
    ELSE 1..Len(Linked(gen.pois))

\* every neighbour of tile c is water
WalledIn(bm, c) ==
    \A n \in Range(neighbors(c[1], c[2], GridW(bm), GridH(bm))) :
        At(bm, n[1], n[2]) = "water"

\* C21 as stated: every road from a town to a castle marks at least one tile
\* unless the walk used up its W*H steps.
C21_Original ==
    FreshWorld =>
        \A k \in CastleLinks :
            \/ Len(gen.paths[k]) >= 1
            \/ Len(gen.paths[k]) = GridW(gen.bm) * GridH(gen.bm)

\* C21: a road from a town to a castle marks no tile exactly when the town
\* stands on the castle's tile or every neighbour of the town is water; the
\* walk then ends at once, with steps to spare, and the roads grid holds
\* exactly the tiles the walks marked.
C21_RoadMarksUnlessBlocked ==
    FreshWorld =>
        /\ \A k \in CastleLinks :
              Len(gen.paths[k]) = 0 <=>
                  \/ gen.links[k][1] = gen.links[k][2]
                  \/ WalledIn(gen.bm, gen.links[k][1])
        /\ TilesOf(gen.roads) = UNION {Range(gen.paths[k]) : k \in 1..Len(gen.paths)}

\* a town walled in by water away from its castle, whose road marks nothing
C21_Witness ==
    /\ FreshWorld
    /\ \E k \in CastleLinks :
          /\ gen.links[k][1] # gen.links[k][2]
          /\ WalledIn(gen.bm, gen.links[k][1])
          /\ Len(gen.paths[k]) = 0
          /\ TilesOf(gen.roads) = {}

\* ----------------------------------------------- claims on a single castle
\* the tiles the placement of the first POI draws, in order
FirstDraws ==
    [d \in 1..Min2(Tries, Len(mt[cfg.seed])) |->
        DrawAt([stream |-> mt[cfg.seed], pos |-> 0], d - 1, cfg.width, cfg.height)]

\* the draws that land on a grass or forest tile of the carved grid
CastleHits ==
    {d \in 1..Len(FirstDraws) :
        At(gen.bm, FirstDraws[d][1], FirstDraws[d][2]) \in {"grass", "forest"}}

OneCastle(c) ==
    <<[key |-> LocKey(c[1], c[2]), val |-> [type |-> "castle", name |-> <<"Castle", 1>>]]>>

\* C22 as stated: with one castle requested and nothing else, a map with a
\* grass or forest tile after carving gets exactly one castle, and locations
\* holds exactly the entry "Castle 1".
C22_Original ==
    (FreshWorld /\ \E c \in Cells(cfg.width, cfg.height) :
                      At(gen.bm, c[1], c[2]) \in {"grass", "forest"}) =>
        /\ Len(gen.pois) = 1 /\ gen.pois[1].type = "castle"
        /\ gen.locations = OneCastle(XY(gen.pois[1]))

\* C22: with one castle requested and nothing else, the castle is placed on
\* the first drawn tile that is grass or forest after carving, and locations
\* then holds exactly the entry "Castle 1" under that tile's key; when none of
\* the draws lands on such a tile no castle is placed and locations is empty,
\* whatever tiles the map has.
C22_CastleOnFirstEligibleDraw ==
    FreshWorld =>
        IF CastleHits = {}
        THEN gen.pois = <<>> /\ gen.locations = <<>> /\ ret.world.locations = <<>>
        ELSE /\ gen.pois = <<[x |-> FirstDraws[MinOf(CastleHits)][1],
                              y |-> FirstDraws[MinOf(CastleHits)][2],
                              type |-> "castle"]>>
             /\ gen.locations = OneCastle(FirstDraws[MinOf(CastleHits)])
             /\ ret.world.locations = gen.locations

\* a map with a grass tile that no draw lands on, left without a castle
C22_Witness ==
    /\ FreshWorld
    /\ \E c \in Cells(cfg.width, cfg.height) : At(gen.bm, c[1], c[2]) = "grass"
    /\ CastleHits = {}
    /\ gen.attempts = <<Tries>>
    /\ gen.locations = <<>>

\* a castle placed on the second draw, the first having landed on water
C22_PlacedWitness ==
    /\ FreshWorld
    /\ CastleHits = {2}
    /\ gen.locations = OneCastle(FirstDraws[2])

\* ------------------------------------------- claims on rivers and roads
\* C23 as stated: the roads grid does not depend on the rivers grid: the
\* roads are the ones the walks mark over the labels of the heightmap, so
\* that a road whose walk leads over a river tile marks it in both grids.
C23_Original ==
    FreshWorld =>
        TilesOf(gen.roads) =
            TilesOf(connect_pois_with_roads(gen.bm0, gen.pois).roads)

\* C23: the rivers grid and the roads grid are two grids of the same shape,
\* and no tile of a generated World is marked in both: the river tiles are
\* water by the time the roads are laid, and a road marks no water tile.
C23_NoTileInBothGrids ==
    FreshWorld =>
        /\ IsGrid(gen.rivers, cfg.width, cfg.height)
        /\ IsGrid(gen.roads, cfg.width, cfg.height)
        /\ TilesOf(gen.rivers) \cap TilesOf(gen.roads) = {}
        /\ ret.world.rivers = gen.rivers /\ ret.world.roads = gen.roads

\* a road that starts beside a river tile lying nearer to its target and
\* goes another way
C23_Witness ==
    /\ FreshWorld
    /\ \E k \in 1..Len(gen.links) :
          /\ Len(gen.paths[k]) >= 1
          /\ \E n \in TilesOf(gen.rivers) :
                /\ manhattan(n, gen.links[k][1]) = 1
                /\ manhattan(n, gen.links[k][2]) < manhattan(gen.links[k][1], gen.links[k][2])
                /\ At(gen.bm0, n[1], n[2]) # "water"

\* ---------------------------------------------- claims on the river walks
HeightAt(c) == At(gen.hm, c[1], c[2])

Around(c) == {n \in Cells(cfg.width, cfg.height) : manhattan(c, n) = 1}

\* the cells at least as high as every 4-connected neighbour
PeakCells == {c \in Cells(cfg.width, cfg.height) : \A n \in Around(c) : HeightAt(c) >= HeightAt(n)}

SourceAt(k) == gen.walks[k].path[1]

Lowest(S) == MinOf({HeightAt(n) : n \in S})

\* the tiles walk k has marked by its n-th one
Seen(k, n) == {gen.walks[k].path[m] : m \in 1..n}

Unseen(k, n) == Around(gen.walks[k].path[n]) \ Seen(k, n)

\* the n-th move of walk k goes to a lowest unvisited neighbour
Downhill(k, n) ==
    /\ gen.walks[k].path[n + 1] \in Unseen(k, n)
    /\ HeightAt(gen.walks[k].path[n + 1]) = Lowest(Unseen(k, n))

\* the n-th move of walk k goes to a lowest neighbour, visited or not
Fallback(k, n) ==
    HeightAt(gen.walks[k].path[n + 1]) = Lowest(Around(gen.walks[k].path[n]))

\* C24: the river sources are the river_count highest cells that are at least
\* as high as every 4-connected neighbour (all of them when there are fewer);
\* from a tile that is neither water nor on the edge the walk moves to the
\* lowest unvisited neighbour when that neighbour is at most 0.01 higher, and
\* otherwise to the lowest neighbour, visited or not; every move goes to a
\* 4-connected neighbour and the rivers grid marks every tile of every walk.
C24_SourcesAndSteps ==
    FreshWorld =>
        /\ Len(gen.walks) = Min2(Max2(cfg.rivers, 0), Cardinality(PeakCells))
        /\ \A k \in 1..Len(gen.walks) :
              /\ SourceAt(k) \in PeakCells
              /\ \A m \in 1..(k - 1) :
                    SourceAt(m) # SourceAt(k) /\ HeightAt(SourceAt(m)) >= HeightAt(SourceAt(k))
              /\ \A p \in PeakCells \ {SourceAt(m) : m \in 1..Len(gen.walks)} :
                    HeightAt(p) <= HeightAt(SourceAt(k))
              /\ \A n \in 1..(Len(gen.walks[k].path) - 1) :
                    /\ gen.walks[k].path[n + 1] \in Around(gen.walks[k].path[n])
                    /\ IF /\ Unseen(k, n) # {}
                          /\ Lowest(Unseen(k, n)) <= HeightAt(gen.walks[k].path[n]) + Slack
                       THEN Downhill(k, n)
                       ELSE Fallback(k, n)
        /\ TilesOf(gen.rivers) = UNION {Range(gen.walks[k].path) : k \in 1..Len(gen.walks)}

\* a walk that moves downhill to an unvisited tile and later, with no
\* unvisited neighbour low enough, back to its lowest neighbour, already visited
C24_Witness ==
    /\ FreshWorld
    /\ \E k \in 1..Len(gen.walks) :
          /\ \E n \in 1..(Len(gen.walks[k].path) - 1) :
                /\ Downhill(k, n)
                /\ HeightAt(gen.walks[k].path[n + 1]) < HeightAt(gen.walks[k].path[n])
          /\ \E n \in 1..(Len(gen.walks[k].path) - 1) :
                /\ gen.walks[k].path[n + 1] \in Seen(k, n)
                /\ Unseen(k, n) # {}
                /\ Fallback(k, n)

\* the labels of the heightmap, before any river was carved
LabelAt(c) == At(gen.bm0, c[1], c[2])

\* C25: every river walk tests its stop condition against the labels of the
\* heightmap: it goes on from every tile that is neither water by height nor
\* on the edge, a tile of an earlier river included, and a walk that stops
\* stands on a tile that was water by height or lies on the edge; the labels
\* become water on exactly the river tiles once all walks are traced.
C25_WalksSeeHeightLabels ==
    FreshWorld =>
        /\ \A k \in 1..Len(gen.walks) :
              /\ \A n \in 1..(Len(gen.walks[k].path) - 1) :
                    /\ LabelAt(gen.walks[k].path[n]) # "water"
                    /\ ~OnEdge(gen.walks[k].path[n], cfg.width, cfg.height)
              /\ gen.walks[k].end = "stop" =>
                    \/ LabelAt(Last(gen.walks[k].path)) = "water"
                    \/ OnEdge(Last(gen.walks[k].path), cfg.width, cfg.height)
              /\ gen.walks[k].end = "budget" =>
                    Len(gen.walks[k].path) = 2 * cfg.width * cfg.height
        /\ \A c \in Cells(cfg.width, cfg.height) :
              At(gen.bm, c[1], c[2]) =
                  IF c \in TilesOf(gen.rivers) THEN "water" ELSE LabelAt(c)

\* the second river steps onto a tile of the first, neither water by height
\* nor on the edge, and goes on
C25_Witness ==
    /\ FreshWorld
    /\ Len(gen.walks) = 2
    /\ \E n \in 1..(Len(gen.walks[2].path) - 1) :
          /\ gen.walks[2].path[n] \in Range(gen.walks[1].path)
          /\ At(gen.bm, gen.walks[2].path[n][1], gen.walks[2].path[n][2]) = "water"
          /\ LabelAt(gen.walks[2].path[n]) # "water"

\* ------------------------------------------- claims on the cached format
\* a map_generator request whose entry loads
IsHit == generate_map /\ dirOk /\ load_ok(files[KeyOf(cfg)])

OldFormat(w) == w.height.ty = "list" /\ w.height.val # <<>>

\* n is w with the heightmap moved out of "height"
Normalised(w, n) ==
    /\ DOMAIN n = DOMAIN w \cup {"heightmap"}
    /\ n.heightmap = w.height.val
    /\ n.height = PyInt(Len(w.height.val))
    /\ n.width = w.width /\ n.width.ty = "int"
    /\ \A k \in DOMAIN w \ {"height", "heightmap"} : n[k] = w[k]

\* what a hit on the stored dict w returns
HitReturns(w) ==
    /\ ret'.kind = "world" /\ ~ret'.fresh
    /\ IF OldFormat(w) THEN Normalised(w, ret'.world) ELSE ret'.world = w
    /\ ret'.world.height.ty = "int"

\* C26 as stated: a hit on an entry whose "height" is a non-empty list of
\* lists returns it normalised and rewrites the entry in that form; an entry
\* whose "height" is an integer is returned as stored.
C26_Original ==
    [][IsHit =>
          /\ HitReturns(loads(files[KeyOf(cfg)]))
          /\ files'[KeyOf(cfg)] = dumps(ret'.world)]_vars

\* C26: a hit on an entry whose "height" is a non-empty list of lists returns
\* it with "heightmap" set to that list, "height" set to its number of rows
\* and the integer "width" and every other field as stored; an entry whose
\* "height" is an integer is returned as stored, so a normalised entry loads
\* unchanged.  The entry is rewritten as the returned dict when the cache
\* file can be written, and stays as it was when it cannot.
C26_HitNormalises ==
    [][IsHit =>
          /\ HitReturns(loads(files[KeyOf(cfg)]))
          /\ files'[KeyOf(cfg)] =
                IF writable THEN dumps(ret'.world) ELSE files[KeyOf(cfg)]
          /\ \A k \in DOMAIN files \ {KeyOf(cfg)} : files'[k] = files[k]]_vars

\* an entry that map_core stored with the heightmap under "height" has been
\* returned by map_generator in the normal form and rewritten
C26_Witness ==
    /\ ret.kind = "world" /\ ~ret.fresh
    /\ lastGen # None /\ lastGen.key = ret.key
    /\ OldFormat(lastGen.world)
    /\ Normalised(lastGen.world, ret.world)
    /\ files[ret.key] = dumps(ret.world)

\* ------------------------------------------- claims on POIs and rivers
\* the tiles a key of the locations map names
TilesNamed(key) == {c \in Cells(cfg.width, cfg.height) : LocKey(c[1], c[2]) = key}

\* C27: no POI of a freshly generated World lies on a tile marked in the
\* rivers grid, and every key of the locations map names a tile of the grid
\* whose final biome is neither water nor sand.
C27_PoisOffRiversAndSand ==
    FreshWorld =>
        /\ \A k \in 1..Len(gen.pois) : XY(gen.pois[k]) \notin TilesOf(ret.world.rivers)
        /\ \A n \in 1..Len(ret.world.locations) :
              /\ TilesNamed(ret.world.locations[n].key) # {}
              /\ \A c \in TilesNamed(ret.world.locations[n].key) :
                    At(ret.world.biomes, c[1], c[2]) \notin {"water", "sand"}

\* the first draw lands on the river's source, a mountain tile before the
\* carving: the castle goes to the second draw and the dungeon, which a
\* mountain tile would have taken, finds no tile, on a map that has sand
C27_Witness ==
    /\ FreshWorld
    /\ FirstDraws[1] \in TilesOf(gen.rivers)
    /\ LabelAt(FirstDraws[1]) = "mountain"
    /\ Len(gen.pois) = 1 /\ gen.pois[1].type = "castle"
    /\ gen.attempts = <<2, Tries, Tries>>
    /\ Len(ret.world.locations) = 1
    /\ \E c \in Cells(cfg.width, cfg.height) : At(gen.bm, c[1], c[2]) = "sand"

\* ------------------------------------------------ claims on road reach
Dry(c) == At(gen.bm, c[1], c[2]) # "water"

RECURSIVE DryReach(_)
\* the tiles joined to those of S by 4-connected steps onto non-water tiles
DryReach(S) ==
    IF \A c \in S : \A n \in Around(c) : Dry(n) => n \in S THEN S
    ELSE DryReach(S \cup {n \in Cells(cfg.width, cfg.height) :
                             Dry(n) /\ \E c \in S : n \in Around(c)})

\* start and target of link k are joined by a path of non-water tiles
Joined(k) == gen.links[k][2] \in DryReach({gen.links[k][1]})

\* the tiles of road k are non-water and form a 4-connected chain from a
\* neighbour of the start
Chain(k) ==
    \A n \in 1..Len(gen.paths[k]) :
        /\ Dry(gen.paths[k][n])
        /\ gen.paths[k][n] \in
              Around(IF n = 1 THEN gen.links[k][1] ELSE gen.paths[k][n - 1])

\* where road k stands when its loop ends
RoadEnd(k) ==
    IF gen.paths[k] = <<>> THEN gen.links[k][1] ELSE Last(gen.paths[k])

\* C28 as stated: a road whose start and target are joined by a 4-connected
\* path of non-water tiles reaches the target within W*H steps, over a
\* 4-connected chain of tiles from a neighbour of the start.
C28_Original ==
    FreshWorld =>
        \A k \in 1..Len(gen.links) :
            Joined(k) => RoadEnd(k) = gen.links[k][2] /\ Chain(k)

\* C28: the tiles a road marks are non-water and form a 4-connected chain
\* from a neighbour of its start; the walk ends on the target, or after W*H
\* steps, or where every neighbour is water.  It reaches the target only if a
\* path of non-water tiles joins start and target, and it can miss a target
\* that is so joined by stepping back and forth until the steps run out.
C28_RoadChainAndEnd ==
    FreshWorld =>
        \A k \in 1..Len(gen.links) :
            /\ Chain(k)
            /\ Len(gen.paths[k]) <= cfg.width * cfg.height
            /\ \/ RoadEnd(k) = gen.links[k][2]
               \/ Len(gen.paths[k]) = cfg.width * cfg.height
               \/ WalledIn(gen.bm, RoadEnd(k))
            /\ RoadEnd(k) = gen.links[k][2] => Joined(k)

\* a road whose target is joined to its start over non-water tiles and which
\* uses all its steps between two tiles without reaching it
C28_Witness ==
    /\ FreshWorld
    /\ \E k \in 1..Len(gen.links) :
          /\ Joined(k)
          /\ Len(gen.paths[k]) = cfg.width * cfg.height
          /\ RoadEnd(k) # gen.links[k][2]
          /\ Cardinality(Range(gen.paths[k])) = 2

\* ------------------------------------------- claims on location entries
\* the names the locations map holds for a type
NamesOf(kind) ==
    {gen.locations[n].val.name :
        n \in {m \in 1..Len(gen.locations) : gen.locations[m].val.type = kind}}

\* C29 as stated: for every min_spacing >= 0 the locations map has exactly
\* one entry per placed POI: no two POIs share a tile, and for each type the
\* names present are exactly "<Type> 1" to "<Type> n", n being the number of
\* POIs of the type placed.
C29_OneEntryPerPoi ==
    FreshWorld =>
        /\ Len(gen.locations) = Len(gen.pois)
        /\ \A a \in 1..Len(gen.pois) : \A b \in 1..Len(gen.pois) :
              a # b => XY(gen.pois[a]) # XY(gen.pois[b])
        /\ \A kind \in {"town", "castle", "dungeon"} :
              NamesOf(kind) = {<<LabelOf(kind), k>> : k \in 1..Len(OfType(gen.pois, kind))}

\* ------------------------------------------------ claims on World objects
\* a constructor given a seed has just returned an object
Constructed(s) == World(<<s>>) /\ world'.kind = "World"

\* C30 as stated: the map of a World constructed with an explicit seed s was
\* generated from s, so its "seed" field equals World.seed, and a World
\* constructed next with another seed under the same worldgen.json does not
\* hold the same map.
C30_MapFromGivenSeed ==
    [][\A s \in Seeds :
          Constructed(s) =>
              /\ world'.seed = s
              /\ world'.map.seed = world'.seed
              /\ (world.kind = "World" /\ world.seed # s) => world'.map # world.map]_vars

====
